---- MODULE Spec2Model ----
(***************************************************************************)
(* A model of the orchestration-and-alignment code of ICAnalysis:          *)
(*   - I3FileGroup.generate_weight_config_file  (analysis/core/i3)         *)
(*   - DBFileGroup.__preprocess_for_merge, DBFileGroup.merge (core/db)     *)
(*   - HTCondorJob.status, HTCondorJob.submit, HTCondorJob._monitor (jobs) *)
(*   - HTCondorJob.configure, create_dag, create_job_sub, clean_logs       *)
(*   - the batch splitter over the scratch area of reset_temp_dir (utils)  *)
(* Each component has its own specification over its own variables; the    *)
(* variables of the other components stay at their initial value.          *)
(***************************************************************************)
EXTENDS Integers, Sequences, FiniteSets, TLC

VARIABLES
    \* ---- generate_weight_config_file
    files,        \* the merge order loaded from merge_order.<id>.json
    sizes,        \* content["size"] of each file's frame-count json
    index,        \* the running total
    data,         \* the dict being built: key -> {size, index_start}
    fpos,         \* position of the for loop in files
    wpc,          \* "loop" | "saved"
    config_file,  \* the persisted table (config.<id>.json)
    \* ---- I3File.metadata
    i3key,        \* key of the file metadata() ran on, None before any call
    i3frames,     \* the frames of that file, in order
    weights_cache,\* self.__weights_cache
    metadata,     \* the list metadata() returned
    \* ---- DBFileGroup
    dbs,          \* the source stores, in the order of self._files
    orig,         \* the source stores as they were before any call
    target,       \* merged.db: table name -> rows
    dpc,          \* "idle" | "pre" | "merge"
    dpos,         \* position of the for loop in self._files
    calls,        \* the calls made so far, in order ("pre" / "merge")
    merge_order,  \* the recorded merge order, as positions in self._files
    \* ---- HTCondorJob.status
    runlog,       \* the lines of dagman.out, as line descriptors, or NoFile
    sresult,      \* what status() gave on runlog
    spc,          \* "call" | "returned"
    \* ---- HTCondorJob.submit / _monitor
    jpc,          \* "submit" | "poll" | "sleep" | "returned" | "aborted"
    monitor,      \* the monitor argument of submit
    proc,         \* the outcome of the condor_submit_dag invocation
    job_id,       \* the extracted identifier, or None
    exit_code,    \* exit status of the process once aborted
    raised,       \* the error that ended submit, or None
    reported,     \* whether an error message was printed
    init_pb_flag, \* _init_pb_flag
    pb_total,     \* progress_bar.total
    pb_n,         \* progress_bar.n
    pb_failed,    \* the failed count shown in the description
    polls,        \* number of status() calls made by the loop (saturating)
    lastread,     \* outcome of the latest status() call
    firstZero,    \* the poll at which queued+ready = 0 was first read, or 0
    allStatus,    \* whether every read so far returned a status
    slept,        \* whether a sleep separated the latest read from the one before
    drained,      \* scheduler side: nothing is queued or ready any more
    \* ---- HTCondorJob.configure / clean_logs
    input_files,  \* self._input_files
    dagman_name,  \* basename of self._dagman_file_path
    dag_dir,      \* names of the files of dirname(self._dagman_file_path)
    log_dirs,     \* the files of the log, out and err directories
    dag_text,     \* content of the job-description file
    sub_text,     \* content of the submission template (job.sub)
    sh_text,      \* content of job.sh
    configured,   \* the clean arguments of the configure calls made so far
    first_dag,    \* dag_text as the first configure call left it
    first_sub,    \* sub_text as the first configure call left it
    last,         \* the latest operation on the files
    had_dag,      \* whether the job-description file existed before it
    \* ---- batch splitter
    source_files, \* the matching files of the source directory
    bsize,        \* the batch size B
    scratch,      \* the scratch area: staging directory -> references
    batches,      \* the staging directories of this cycle, in order
    sorted,       \* the listing, sorted by path
    bnext,        \* position in sorted of the next chunk
    bpc,          \* "idle" | "staging" | "raised"
    cycles,       \* number of calls of the splitter so far
    temp_exists,  \* whether the directory data/temp exists
    \* ---- I3FileGroup.__init__
    paths,        \* self._paths
    fgit,         \* position of the list iterator of the for loop (from 0)
    filenames,    \* self._filenames
    fgpc,         \* "loop" | "done"
    listed        \* what listdir_absolute returned

ixvars  == <<files, sizes, index, data, fpos, wpc, config_file,
             i3key, i3frames, weights_cache, metadata>>
dbvars  == <<dbs, orig, target, dpc, dpos, calls, merge_order>>
stvars  == <<runlog, sresult, spc>>
jobvars == <<jpc, monitor, proc, job_id, exit_code, raised, reported,
             init_pb_flag, pb_total, pb_n, pb_failed, polls, lastread,
             firstZero, allStatus, slept, drained>>
cfvars  == <<input_files, dagman_name, dag_dir, log_dirs, dag_text, sub_text,
             sh_text, configured, first_dag, first_sub, last, had_dag>>
bsvars  == <<source_files, bsize, scratch, batches, sorted, bnext, bpc, cycles,
             temp_exists>>
fgvars  == <<paths, fgit, filenames, fgpc, listed>>
vars    == <<ixvars, dbvars, stvars, jobvars, cfvars, bsvars, fgvars>>

None == "None"

Range(s) == {s[i] : i \in 1..Len(s)}

Max(S) == CHOOSE m \in S : \A x \in S : x <= m

RECURSIVE SumSeq(_)
SumSeq(s) == IF s = <<>> THEN 0 ELSE s[1] + SumSeq(Tail(s))

\* injective sequences over S of length at most n
InjSeqs(S, n) ==
    UNION {{s \in [1..k -> S] : \A i, j \in 1..k : i # j => s[i] # s[j]} : k \in 0..n}

(***************************************************************************)
(* generate_weight_config_file                                             *)
(***************************************************************************)
MaxFiles == 3
MaxSize == 2

StemNames == <<"a", "b", "c", "d", "e">>

Stems == {StemNames[i] : i \in 1..MaxFiles}

\* a basename, as its parts: the stem and the extension
FileNames == {<<s, ".hdf5">> : s \in Stems}

\* os.path.basename(file).replace(".hdf5", "")
IsNotHdf5(part) == part # ".hdf5"
KeyOf(file) == SelectSeq(file, IsNotHdf5)

IxIdle ==
    /\ files = <<>> /\ sizes = <<>> /\ index = 0 /\ data = <<>>
    /\ fpos = 1 /\ wpc = "saved" /\ config_file = <<>>
    /\ i3key = None /\ i3frames = <<>> /\ weights_cache = <<>> /\ metadata = <<>>

IxInit ==
    /\ files \in InjSeqs(FileNames, MaxFiles)
    /\ sizes \in [Range(files) -> 0..MaxSize]
    /\ index = 0
    /\ data = <<>>
    /\ fpos = 1
    /\ wpc = "loop"
    /\ config_file = None
    /\ i3key = None /\ i3frames = <<>> /\ weights_cache = <<>> /\ metadata = <<>>

\* (a variant that advances the running total before the entry is written)
IndexStartAfter(running, size) == running + size

\* "index_start": index
IndexStart(running, size) == running

\* one iteration of the for loop: data[key] = {...}; index += size
IndexFile ==
    /\ wpc = "loop"
    /\ fpos <= Len(files)
    /\ LET file == files[fpos]
           size == sizes[file]
           key  == KeyOf(file)
           rec  == [size |-> size, index_start |-> IndexStart(index, size)]
       IN  /\ data' = [k \in (DOMAIN data) \cup {key} |->
                          IF k = key THEN rec ELSE data[k]]
           /\ index' = index + size
    /\ fpos' = fpos + 1
    /\ UNCHANGED <<files, sizes, wpc, config_file>>
    /\ UNCHANGED <<i3key, i3frames, weights_cache, metadata>>
    /\ UNCHANGED <<dbvars, stvars, jobvars, cfvars, bsvars, fgvars>>

\* json.dump(data, config_file)
IndexSave ==
    /\ wpc = "loop"
    /\ fpos > Len(files)
    /\ config_file' = data
    /\ wpc' = "saved"
    /\ UNCHANGED <<files, sizes, index, data, fpos>>
    /\ UNCHANGED <<i3key, i3frames, weights_cache, metadata>>
    /\ UNCHANGED <<dbvars, stvars, jobvars, cfvars, bsvars, fgvars>>

(***************************************************************************)
(* I3File.metadata and the weights it attaches                             *)
(***************************************************************************)
MaxOtherFrames == 1

\* a frame of an .i3 file: a frame of another stream (frame.Stop is not
\* Physics), a Physics frame that passes the checks of metadata(), or a
\* Physics frame one of them rejects (no MC tree or weight dictionary, no
\* neutrino primary, no interacting neutrino)
FrameKinds == {"DAQ", "Physics", "PhysicsSkipped"}
IsPhysics(kind) == kind # "DAQ"
FrameSeqs == UNION {[1..k -> FrameKinds] : k \in 0..(MaxSize + MaxOtherFrames)}

\* p_frames(): the number of frames with frame.Stop == Physics
PFrames(fr) == Cardinality({i \in 1..Len(fr) : IsPhysics(fr[i])})

\* the .i3.zst file a row of the merge order was converted from
I3Name(file) == <<file[1], ".i3.zst">>

\* repr(self).replace(".i3.zst", "")
IsNotI3Zst(part) == part # ".i3.zst"
I3KeyOf(name) == SelectSeq(name, IsNotI3Zst)

\* weights.<id>.json: one weight per counted event of every file, in the
\* merge order; a weight is written as its position in the list (from 0)
WeightData ==
    [k \in 1..SumSeq([j \in 1..Len(files) |-> sizes[files[j]]]) |-> k - 1]

\* the list slice seq[a:b] for 0 <= a <= b, positions counted from 0
Slice(seq, a, b) == SubSeq(seq, a + 1, IF b < Len(seq) THEN b ELSE Len(seq))

\* weight_data[init_index:init_index + frame_count + 1]
PreloadWeights(key, weight_config, weight_data) ==
    LET init_index  == weight_config[key].index_start
        frame_count == weight_config[key].size
    IN  Slice(weight_data, init_index, init_index + frame_count + 1)

\* the while loop of metadata(): i is the position of the next frame, idx
\* the value of index; a record keeps the position of its frame and the
\* weight self.__weights_cache[index]; index is advanced after an append only
RECURSIVE MetadataLoop(_, _, _, _, _)
MetadataLoop(fr, i, idx, cache, acc) ==
    IF i > Len(fr) THEN acc
    ELSE IF fr[i] # "Physics" THEN MetadataLoop(fr, i + 1, idx, cache, acc)
    ELSE MetadataLoop(fr, i + 1, idx + 1, cache,
                      Append(acc, [frame |-> i, weight |-> cache[idx + 1]]))

\* metadata(group_id) on a file of the merge order, once the table is saved
Metadata ==
    /\ wpc = "saved"
    /\ \E file \in Range(files), fr \in FrameSeqs :
          /\ PFrames(fr) = sizes[file]
          /\ LET key   == I3KeyOf(I3Name(file))
                 cache == PreloadWeights(key, config_file, WeightData)
             IN  /\ i3key' = key
                 /\ i3frames' = fr
                 /\ weights_cache' = cache
                 /\ metadata' = MetadataLoop(fr, 1, 0, cache, <<>>)
    /\ UNCHANGED <<files, sizes, index, data, fpos, wpc, config_file>>
    /\ UNCHANGED <<dbvars, stvars, jobvars, cfvars, bsvars, fgvars>>

(***************************************************************************)
(* DBFileGroup: __preprocess_for_merge and merge                           *)
(***************************************************************************)
MaxSources == 2
MaxEventNo == 1
MaxCalls == 2

\* the scale of the offset: int(<file number> * 1e6)
Scale == 1000000

\* merge(batch_size=10 * 1024)
batch_size == 10 * 1024

\* int(os.path.basename(db_file)[-9:-3]) of the files of the directory
FileNums == {0, 1}

EventNos == 0..MaxEventNo

\* the rows of a set of event numbers, ascending
RECURSIVE Ascending(_)
Ascending(S) ==
    IF S = {} THEN <<>>
    ELSE LET m == CHOOSE x \in S : \A y \in S : x <= y
         IN  <<m>> \o Ascending(S \ {m})

\* A source store: its file number and its tables, each a sequence of rows;
\* a row is given by its event_no column. event_no is unique within truth.
SourceStores ==
    {[num |-> n, truth |-> Ascending(E), pulses |-> p] :
        n \in FileNums, E \in SUBSET EventNos, p \in {<<>>}} \cup
    {[num |-> n, truth |-> Ascending(E), pulses |-> Ascending(E)] :
        n \in FileNums, E \in (SUBSET EventNos) \ {{}}}

TableNames == {"truth", "pulses"}

NoTables == [t \in {} |-> <<>>]

DbIdle ==
    /\ dbs = <<>> /\ orig = <<>> /\ target = NoTables
    /\ dpc = "idle" /\ dpos = 1 /\ calls = <<>> /\ merge_order = <<>>

\* the directory as __init__ finds it; the recorded order lists the files as
\* glob does
DbInit ==
    /\ dbs \in UNION {[1..k -> SourceStores] : k \in 0..MaxSources}
    /\ orig = dbs
    /\ target = NoTables
    /\ dpc = "idle"
    /\ dpos = 1
    /\ calls = <<>>
    /\ merge_order = [i \in 1..Len(dbs) |-> i]

\* the same directory with any recorded order: glob gives the files in the
\* order of the file system, whatever the record says
DbInitAnyOrder ==
    /\ dbs \in UNION {[1..k -> SourceStores] : k \in 0..MaxSources}
    /\ orig = dbs
    /\ target = NoTables
    /\ dpc = "idle"
    /\ dpos = 1
    /\ calls = <<>>
    /\ merge_order \in {o \in InjSeqs(1..Len(dbs), Len(dbs)) : Len(o) = Len(dbs)}

\* stores whose event numbers reach the scale of the offset: the file
\* numbers 000000 .. 000002 and event numbers at both ends of [0, 10^6), and
\* one store that holds the event number 10^6 itself
OffsetEventSets == {{}, {0}, {0, 1}, {999999}, {0, 999999}, {0, 1000000}}
OffsetStores ==
    {[num |-> n, truth |-> Ascending(E), pulses |-> <<>>] :
        n \in {0, 1, 2}, E \in OffsetEventSets}

DbInitOffsets ==
    /\ dbs \in UNION {[1..k -> OffsetStores] : k \in 0..MaxSources}
    /\ orig = dbs
    /\ target = NoTables
    /\ dpc = "idle"
    /\ dpos = 1
    /\ calls = <<>>
    /\ merge_order = [i \in 1..Len(dbs) |-> i]

\* (a variant without the scale)
IdentifierUnscaled(db) == db.num

\* identifier = int(int(basename[-9:-3]) * 1e6)
Identifier(db) == db.num * Scale

LessThan(a, b) == a < b

\* SELECT event_no FROM truth ORDER BY event_no
EventNosOf(db) == SortSeq(db.truth, LessThan)

\* new_event_nos = [identifier + en for en in event_nos]
OffsetNos(db) == [i \in 1..Len(db.truth) |-> Identifier(db) + EventNosOf(db)[i]]

\* the store the conflict check reads: the cursor of the source itself
ExistingEvents(db) == Range(db.truth)

\* event_counter = max(existing_events) + 1
EventCounter(db) == Max(ExistingEvents(db)) + 1

\* (a variant without the conflict check)
NewEventNosUnchecked(db) == OffsetNos(db)

\* new_event_nos after the conflict check
NewEventNos(db) ==
    IF \E i \in 1..Len(db.truth) : OffsetNos(db)[i] \in ExistingEvents(db)
    THEN [i \in 1..Len(db.truth) |-> EventCounter(db) + (i - 1)]
    ELSE OffsetNos(db)

\* UPDATE truth SET event_no = new WHERE event_no = old, one pair of the
\* mapping after the other, on the same table
RECURSIVE ApplyUpdates(_, _, _)
ApplyUpdates(rows, olds, news) ==
    IF olds = <<>> THEN rows
    ELSE ApplyUpdates(
            [i \in 1..Len(rows) |-> IF rows[i] = olds[1] THEN news[1] ELSE rows[i]],
            Tail(olds), Tail(news))

\* the body of the for loop of __preprocess_for_merge on one store
Preprocessed(db) ==
    IF db.truth = <<>> THEN db
    ELSE [db EXCEPT !.truth = ApplyUpdates(db.truth, EventNosOf(db), NewEventNos(db))]

\* fetchmany(batch_size) / executemany until no rows are left
RECURSIVE InsertRows(_, _)
InsertRows(existing, rows) ==
    IF rows = <<>> THEN existing
    ELSE LET n == IF Len(rows) < batch_size THEN Len(rows) ELSE batch_size
         IN  InsertRows(existing \o SubSeq(rows, 1, n), SubSeq(rows, n + 1, Len(rows)))

RowsOf(db, t) == IF t = "truth" THEN db.truth ELSE db.pulses

\* (a variant that copies the truth table only)
TablesCopiedTruthOnly(db) == {"truth"}

\* the tables a source store holds (sqlite_master)
TablesCopied(db) == TableNames

\* the target after the tables of one source were copied
Copied(tgt, db) ==
    [t \in (DOMAIN tgt) \cup TablesCopied(db) |->
        IF t \in TablesCopied(db)
        THEN InsertRows(IF t \in DOMAIN tgt THEN tgt[t] ELSE <<>>, RowsOf(db, t))
        ELSE tgt[t]]

\* (a variant that starts from an empty merged.db)
OpenTargetFresh(tgt) == NoTables

\* sqlite3.connect(merged_file): the store as earlier runs left it
OpenTarget(tgt) == tgt

\* a caller invokes __preprocess_for_merge
CallPreprocess ==
    /\ dpc = "idle"
    /\ Len(calls) < MaxCalls
    /\ dpc' = "pre"
    /\ dpos' = 1
    /\ calls' = Append(calls, "pre")
    /\ UNCHANGED <<dbs, orig, target, merge_order>>
    /\ UNCHANGED <<ixvars, stvars, jobvars, cfvars, bsvars, fgvars>>

\* a caller invokes merge: connect to merged.db, BEGIN TRANSACTION
CallMerge ==
    /\ dpc = "idle"
    /\ Len(calls) < MaxCalls
    /\ dpc' = "merge"
    /\ dpos' = 1
    /\ calls' = Append(calls, "merge")
    /\ target' = OpenTarget(target)
    /\ UNCHANGED <<dbs, orig, merge_order>>
    /\ UNCHANGED <<ixvars, stvars, jobvars, cfvars, bsvars, fgvars>>

\* one iteration of the loop of __preprocess_for_merge
PreprocessFile ==
    /\ dpc = "pre"
    /\ dpos <= Len(dbs)
    /\ dbs' = [dbs EXCEPT ![dpos] = Preprocessed(dbs[dpos])]
    /\ dpos' = dpos + 1
    /\ UNCHANGED <<orig, target, dpc, calls, merge_order>>
    /\ UNCHANGED <<ixvars, stvars, jobvars, cfvars, bsvars, fgvars>>

\* one iteration of the loop of merge
MergeFile ==
    /\ dpc = "merge"
    /\ dpos <= Len(dbs)
    /\ target' = Copied(target, dbs[dpos])
    /\ dpos' = dpos + 1
    /\ UNCHANGED <<dbs, orig, dpc, calls, merge_order>>
    /\ UNCHANGED <<ixvars, stvars, jobvars, cfvars, bsvars, fgvars>>

\* the loop is over: (commit and) return
DbReturn ==
    /\ dpc \in {"pre", "merge"}
    /\ dpos > Len(dbs)
    /\ dpc' = "idle"
    /\ UNCHANGED <<dbs, orig, target, dpos, calls, merge_order>>
    /\ UNCHANGED <<ixvars, stvars, jobvars, cfvars, bsvars, fgvars>>

(***************************************************************************)
(* Text: a string is a sequence of one-character strings                   *)
(***************************************************************************)
Whitespace == {" ", "\n"}

DigitChars == <<"0", "1", "2", "3", "4", "5", "6", "7", "8", "9">>

\* str(n) for n >= 0
RECURSIVE Decimal(_)
Decimal(n) ==
    IF n < 10 THEN <<DigitChars[n + 1]>>
    ELSE Decimal(n \div 10) \o <<DigitChars[(n % 10) + 1]>>

\* str.strip()
Strip(s) ==
    LET keep == {i \in 1..Len(s) : s[i] \notin Whitespace}
    IN  IF keep = {} THEN <<>>
        ELSE SubSeq(s, CHOOSE i \in keep : \A j \in keep : i <= j,
                       CHOOSE i \in keep : \A j \in keep : j <= i)

\* sub in s
Contains(sub, s) ==
    \E i \in 1..(Len(s) - Len(sub) + 1) : SubSeq(s, i, i + Len(sub) - 1) = sub

\* s[n:]
DropFirst(s, n) == SubSeq(s, n + 1, Len(s))

\* str.split(): the maximal runs of non-whitespace characters
RECURSIVE SplitFrom(_, _, _)
SplitFrom(s, i, word) ==
    IF i > Len(s) THEN (IF word = <<>> THEN <<>> ELSE <<word>>)
    ELSE IF s[i] \in Whitespace
         THEN (IF word = <<>> THEN <<>> ELSE <<word>>) \o SplitFrom(s, i + 1, <<>>)
         ELSE SplitFrom(s, i + 1, Append(word, s[i]))

Split(s) == SplitFrom(s, 1, <<>>)

\* str.isdigit()
IsDigit(word) == word # <<>> /\ \A i \in 1..Len(word) : word[i] \in Range(DigitChars)

DigitValue(c) == CHOOSE d \in 0..9 : DigitChars[d + 1] = c

\* int(word) for a word of digits
RECURSIVE ToInt(_)
ToInt(word) ==
    IF word = <<>> THEN 0
    ELSE 10 * ToInt(SubSeq(word, 1, Len(word) - 1)) + DigitValue(word[Len(word)])

(***************************************************************************)
(* HTCondorJob.status                                                      *)
(***************************************************************************)
MaxLogLines == 3

\* condition_text
condition_text ==
    <<" ", " ", "D", "o", "n", "e", " ", " ", " ", " ", " ", "P", "r", "e",
      " ", " ", " ", "Q", "u", "e", "u", "e", "d", " ", " ", " ", " ", "P",
      "o", "s", "t", " ", " ", " ", "R", "e", "a", "d", "y", " ", " ", " ",
      "U", "n", "-", "R", "e", "a", "d", "y", " ", " ", " ", "F", "a", "i",
      "l", "e", "d", " ", " ", " ", "F", "u", "t", "i", "l", "e">>

\* the entry time every line of dagman.out starts with
EntryTime ==
    <<"1", "1", "/", "0", "3", "/", "2", "6", " ",
      "2", "0", ":", "3", "6", ":", "0", "0">>

RuleText ==
    <<" ", " ", " ", "=", "=", "=", " ", " ", " ", " ", " ", "=", "=", "=",
      " ", " ", " ", " ", " ", " ", "=", "=", "=", " ", " ", " ", " ", " ",
      "=", "=", "=", " ", " ", " ", " ", " ", "=", "=", "=", " ", " ", " ",
      " ", " ", " ", " ", " ", "=", "=", "=", " ", " ", " ", " ", " ", " ",
      "=", "=", "=", " ", " ", " ", " ", " ", " ", "=", "=", "=">>

NodesText ==
    <<" ", "O", "f", " ", "3", " ", "n", "o", "d", "e", "s", " ",
      "t", "o", "t", "a", "l", ":">>

\* status(lines_after=2)
lines_after == 2

\* content = lines[...].strip()[17:]
EntryTimeWidth == 17

ExampleCounts == <<10, 0, 5, 0, 3, 0, 2, 0>>

\* the counters of the status lines of the run-logs examined
LogCounts == {ExampleCounts, <<1, 2, 3, 4, 5, 6, 7, 8>>, <<0, 0, 0, 0, 0, 0, 0, 0>>}

\* A line of the run-log is described by what it is (kind), whether it starts
\* with the entry time (ts) and, for a status line, the counters written so far.
Line(kind, ts, vals) == [kind |-> kind, ts |-> ts, vals |-> vals]

LogLines ==
    {Line("header", ts, <<>>) : ts \in BOOLEAN} \cup
    {Line("rule", TRUE, <<>>), Line("text", TRUE, <<>>), Line("blank", FALSE, <<>>)} \cup
    {Line("status", TRUE, c) : c \in LogCounts} \cup
    {Line("status", FALSE, ExampleCounts), Line("status", TRUE, SubSeq(ExampleCounts, 1, 3))}

\* the counters of a status line, three spaces apart
RECURSIVE JoinCounts(_)
JoinCounts(vals) ==
    IF vals = <<>> THEN <<>>
    ELSE IF Len(vals) = 1 THEN Decimal(vals[1])
    ELSE Decimal(vals[1]) \o <<" ", " ", " ">> \o JoinCounts(Tail(vals))

\* the text of a line, as file.readlines() gives it
Render(line) ==
    (IF line.ts THEN EntryTime ELSE <<>>) \o
    (CASE line.kind = "header" -> condition_text
       [] line.kind = "rule"   -> RuleText
       [] line.kind = "text"   -> NodesText
       [] line.kind = "status" ->
            (IF line.ts THEN <<" ", " ", " ", " ">> ELSE <<>>) \o JoinCounts(line.vals)
       [] OTHER -> <<>>) \o
    <<"\n">>

\* the run-log: absent, or a file with lines
NoFile == [exists |-> FALSE, lines |-> <<>>]
LogFile(lines) == [exists |-> TRUE, lines |-> lines]

NoCounters ==
    [done |-> -1, pre |-> -1, queued |-> -1, post |-> -1,
     ready |-> -1, unready |-> -1, failed |-> -1, futile |-> -1]

\* what a call of status() ends with: a dict, None, or an exception
Returned(st)  == [kind |-> "status", status |-> st]
ReturnedNone  == [kind |-> "None", status |-> NoCounters]
Raised(error) == [kind |-> error, status |-> NoCounters]

\* values = [int(x) for x in output.split() if x.isdigit()]
Values(output) ==
    LET words  == Split(output)
        digits == SelectSeq(words, IsDigit)
    IN  [i \in 1..Len(digits) |-> ToInt(digits[i])]

\* (a variant with queued and ready taken from each other's position)
ParseSwapped(output) ==
    LET values == Values(output)
    IN  IF Len(values) < 8 THEN Raised("IndexError")
        ELSE Returned([done |-> values[1], pre |-> values[2], queued |-> values[5],
                       post |-> values[4], ready |-> values[3], unready |-> values[6],
                       failed |-> values[7], futile |-> values[8]])

\* __parse: the dict of the eight counters, values[0] .. values[7]
Parse(output) ==
    LET values == Values(output)
    IN  IF Len(values) < 8 THEN Raised("IndexError")
        ELSE Returned([done |-> values[1], pre |-> values[2], queued |-> values[3],
                       post |-> values[4], ready |-> values[5], unready |-> values[6],
                       failed |-> values[7], futile |-> values[8]])

\* (a variant that takes the first line with the marker, from the top)
ScanFromFirst(lines, i) ==
    LET marked == {k \in 1..i : Contains(condition_text, Strip(lines[k]))}
    IN  IF marked = {} THEN ReturnedNone
        ELSE LET k == CHOOSE m \in marked : \A n \in marked : m <= n
             IN  IF k + lines_after > Len(lines) THEN Raised("IndexError")
                 ELSE Parse(DropFirst(Strip(lines[k + lines_after]), EntryTimeWidth))

\* (a variant that reads the line lines_after below before testing the marker)
RECURSIVE ScanFromEager(_, _)
ScanFromEager(lines, i) ==
    IF i < 1 THEN ReturnedNone
    ELSE IF i + lines_after > Len(lines) THEN Raised("IndexError")
    ELSE IF ~Contains(condition_text, Strip(lines[i])) THEN ScanFromEager(lines, i - 1)
    ELSE Parse(DropFirst(Strip(lines[i + lines_after]), EntryTimeWidth))

\* for i in range(len(lines) - 1, -1, -1): ...; return None
RECURSIVE ScanFrom(_, _)
ScanFrom(lines, i) ==
    IF i < 1 THEN ReturnedNone
    ELSE IF ~Contains(condition_text, Strip(lines[i])) THEN ScanFrom(lines, i - 1)
    ELSE IF i + lines_after > Len(lines) THEN Raised("IndexError")
    ELSE Parse(DropFirst(Strip(lines[i + lines_after]), EntryTimeWidth))

\* status() on a run-log: open the file, readlines(), scan from the last line
Status(log) ==
    IF ~log.exists THEN Raised("FileNotFoundError")
    ELSE LET lines == [i \in 1..Len(log.lines) |-> Render(log.lines[i])]
         IN  ScanFrom(lines, Len(lines))

\* the status blocks DAGMan appends to the run-log, complete or cut short
MaxBlocks == 2
Blocks ==
    {<<Line("header", TRUE, <<>>), Line("rule", TRUE, <<>>), Line("status", TRUE, c)>> :
        c \in LogCounts} \cup
    {<<Line("header", TRUE, <<>>)>>,
     <<Line("header", TRUE, <<>>), Line("rule", TRUE, <<>>)>>,
     <<Line("header", TRUE, <<>>), Line("rule", TRUE, <<>>),
       Line("status", TRUE, SubSeq(ExampleCounts, 1, 3))>>}

RECURSIVE Flatten(_)
Flatten(blocks) == IF blocks = <<>> THEN <<>> ELSE blocks[1] \o Flatten(Tail(blocks))

\* run-logs made of status blocks, one after the other
BlockLogs ==
    {LogFile(Flatten(bs)) : bs \in UNION {[1..k -> Blocks] : k \in 1..MaxBlocks}}

StIdle == runlog = NoFile /\ sresult = ReturnedNone /\ spc = "returned"

StInit ==
    /\ runlog \in {NoFile} \cup
                  {LogFile(l) : l \in UNION {[1..k -> LogLines] : k \in 0..MaxLogLines}} \cup
                  BlockLogs
    /\ sresult = ReturnedNone
    /\ spc = "call"

\* a call of status()
CallStatus ==
    /\ spc = "call"
    /\ sresult' = Status(runlog)
    /\ spc' = "returned"
    /\ UNCHANGED runlog
    /\ UNCHANGED <<ixvars, dbvars, jobvars, cfvars, bsvars, fgvars>>

(***************************************************************************)
(* HTCondorJob.submit and HTCondorJob._monitor                             *)
(***************************************************************************)
MaxPolls == 4
MaxJobs == 2

\* str.lower() on the words of the scheduler's output
Lower(word) ==
    CASE word = "Cluster" -> "cluster"
      [] word = "ERROR"   -> "error"
      [] OTHER -> word

\* words in which "cluster" occurs, once in lower case
HasMarker(word) == Lower(word) \in {"cluster", "cluster."}

\* the lines condor_submit_dag may print, each as its words
OutputLines ==
    {<<"1", "job(s)", "submitted", "to", "cluster", "12345.">>,
     <<"1", "job(s)", "submitted", "to", "Cluster", "678.">>,
     <<"ERROR", "in", "dagman.dag">>}

\* subprocess.run: the exit status and the captured stdout
Outcomes ==
    {[returncode |-> rc, stdout |-> out] :
        rc \in {0, 1}, out \in UNION {[1..k -> OutputLines] : k \in 0..2}}

\* the loop over stdout.splitlines(): the last word of the first line in which
\* "cluster" occurs, or None
RECURSIVE ExtractFrom(_, _)
ExtractFrom(lines, i) ==
    IF i > Len(lines) THEN None
    ELSE IF \E w \in 1..Len(lines[i]) : HasMarker(lines[i][w])
         THEN lines[i][Len(lines[i])]
         ELSE ExtractFrom(lines, i + 1)

ExtractJobId(stdout) == ExtractFrom(stdout, 1)

\* the counters a status block of the run-log may show for a flat DAG of at
\* most MaxJobs nodes: every node is done, queued, ready or failed
JobCounts ==
    {c \in {<<d, 0, q, 0, r, 0, f, 0>> : d \in 0..MaxJobs, q \in 0..MaxJobs,
                                         r \in 0..MaxJobs, f \in 0..MaxJobs} :
        c[1] + c[3] + c[5] + c[7] <= MaxJobs}

BlockOf(c) ==
    LogFile(<<Line("header", TRUE, <<>>), Line("rule", TRUE, <<>>), Line("status", TRUE, c)>>)

\* the run-logs a poll finds while the scheduler has not (completely) written
\* a status block: no file yet, or the block cut after the header, after the
\* rule, or within the line of counters
TransientLogs ==
    {NoFile,
     LogFile(<<Line("header", TRUE, <<>>)>>),
     LogFile(<<Line("header", TRUE, <<>>), Line("rule", TRUE, <<>>)>>),
     LogFile(<<Line("header", TRUE, <<>>), Line("rule", TRUE, <<>>),
               Line("status", TRUE, SubSeq(ExampleCounts, 1, 3))>>)}

\* the run-logs the monitor may find at a poll
JobLogs ==
    TransientLogs \cup {LogFile(<<>>)} \cup {BlockOf(c) : c \in JobCounts}

\* what status() gives on them
JobReads == {Status(log) : log \in JobLogs}

\* (variants: one that ignores ready, one that also waits for failed = 0)
IsCompleteQueuedOnly(st) == st.queued = 0
IsCompleteNoFailure(st) == st.queued + st.ready + st.failed = 0

\* status["queued"] + status["ready"] == 0
IsComplete(st) == st.queued + st.ready = 0

\* what a poll may read: once the scheduler is drained, only statuses with
\* nothing queued or ready
Readable ==
    IF drained
    THEN {read \in JobReads : read.kind = "status" /\
                              read.status.queued + read.status.ready = 0}
    ELSE JobReads

JobIdle ==
    /\ jpc = "returned" /\ monitor = FALSE
    /\ proc = [returncode |-> 0, stdout |-> <<>>]
    /\ job_id = None /\ exit_code = 0 /\ raised = None /\ reported = FALSE
    /\ init_pb_flag = FALSE /\ pb_total = -1 /\ pb_n = -1 /\ pb_failed = -1
    /\ polls = 0 /\ lastread = ReturnedNone /\ firstZero = 0
    /\ allStatus = TRUE /\ slept = FALSE /\ drained = FALSE

JobInit ==
    /\ jpc = "submit"
    /\ monitor \in BOOLEAN
    /\ proc \in Outcomes
    /\ job_id = None /\ exit_code = 0 /\ raised = None /\ reported = FALSE
    /\ init_pb_flag = FALSE /\ pb_total = -1 /\ pb_n = -1 /\ pb_failed = -1
    /\ polls = 0 /\ lastread = ReturnedNone /\ firstZero = 0
    /\ allStatus = TRUE /\ slept = FALSE /\ drained = FALSE

monvars == <<init_pb_flag, pb_total, pb_n, pb_failed, polls, lastread,
             firstZero, allStatus, slept>>

\* (variants: one without the check of job_id, one whose except branch
\* does not exit)
SubmitEndUnchecked(outcome, id, mon) ==
    IF outcome.returncode # 0 THEN "exit"
    ELSE IF mon THEN "poll" ELSE "returned"
SubmitEndNoExit(outcome, id, mon) ==
    IF outcome.returncode = 0 /\ id = None THEN "ValueError"
    ELSE IF mon THEN "poll" ELSE "returned"

\* where submit goes once the scheduler was invoked:
\*   CalledProcessError -> print, exit(1); no identifier -> ValueError;
\*   otherwise _monitor() if asked, else return
SubmitEnd(outcome, id, mon) ==
    IF outcome.returncode # 0 THEN "exit"
    ELSE IF id = None THEN "ValueError"
    ELSE IF mon THEN "poll" ELSE "returned"

\* (a variant whose handler of the short read gives up)
AfterNoStatusEscalating(kind) ==
    IF kind = "None" THEN "retry"
    ELSE IF kind = "IndexError" THEN "aborted" ELSE "sleep"

\* the loop of _monitor when status() gave no dict:
\*   None -> continue; FileNotFoundError -> print, sleep(1);
\*   IndexError -> sleep(1)
AfterNoStatus(kind) == IF kind = "None" THEN "retry" ELSE "sleep"

\* submit(monitor), up to the call of _monitor
Submit ==
    /\ jpc = "submit"
    /\ LET id  == IF proc.returncode = 0 THEN ExtractJobId(proc.stdout) ELSE None
           end == SubmitEnd(proc, id, monitor)
       IN  /\ job_id' = id
           /\ jpc' = IF end \in {"exit", "ValueError"} THEN "aborted" ELSE end
           /\ raised' = IF end = "exit" THEN "SystemExit"
                        ELSE IF end = "ValueError" THEN "ValueError" ELSE None
           /\ exit_code' = IF end \in {"exit", "ValueError"} THEN 1 ELSE 0
           /\ reported' = (end \in {"exit", "ValueError"})
    /\ UNCHANGED <<monitor, proc, drained>>
    /\ UNCHANGED monvars
    /\ UNCHANGED <<ixvars, dbvars, stvars, cfvars, bsvars, fgvars>>

\* one pass of the while loop of _monitor: status(), then return, sleep or continue
Poll ==
    /\ jpc \in {"poll", "retry"}
    /\ \E read \in Readable :
        LET st   == read.status
            n    == IF polls < MaxPolls THEN polls + 1 ELSE polls
        IN  /\ lastread' = read
            /\ polls' = n
            /\ slept' = (jpc = "poll")
            /\ allStatus' = (allStatus /\ read.kind = "status")
            /\ firstZero' = IF firstZero = 0 /\ read.kind = "status"
                               /\ st.queued + st.ready = 0
                            THEN n ELSE firstZero
            /\ IF read.kind = "status"
               THEN /\ init_pb_flag' = TRUE
                    /\ pb_total' = IF init_pb_flag THEN pb_total
                                   ELSE st.queued + st.ready + st.done + st.failed
                    /\ pb_n' = st.done + st.failed
                    /\ pb_failed' = st.failed
                    /\ jpc' = IF IsComplete(st) THEN "returned" ELSE "sleep"
               ELSE /\ UNCHANGED <<init_pb_flag, pb_total, pb_n, pb_failed>>
                    /\ jpc' = AfterNoStatus(read.kind)
    /\ UNCHANGED <<monitor, proc, job_id, exit_code, raised, reported, drained>>
    /\ UNCHANGED <<ixvars, dbvars, stvars, cfvars, bsvars, fgvars>>

\* time.sleep(1) is over
Sleep ==
    /\ jpc = "sleep"
    /\ jpc' = "poll"
    /\ UNCHANGED <<monitor, proc, job_id, exit_code, raised, reported, drained>>
    /\ UNCHANGED monvars
    /\ UNCHANGED <<ixvars, dbvars, stvars, cfvars, bsvars, fgvars>>

\* the scheduler has nothing queued or ready any more
Drain ==
    /\ ~drained
    /\ jpc \in {"poll", "retry", "sleep"}
    /\ drained' = TRUE
    /\ UNCHANGED <<jpc, monitor, proc, job_id, exit_code, raised, reported>>
    /\ UNCHANGED monvars
    /\ UNCHANGED <<ixvars, dbvars, stvars, cfvars, bsvars, fgvars>>

(***************************************************************************)
(* HTCondorJob.configure: clean_logs, create_job_sh, create_job_sub,       *)
(* create_dag                                                              *)
(***************************************************************************)
MaxInputs == 2
MaxConfigures == 2

\* str.endswith / str.startswith
EndsWith(s, suffix) ==
    Len(s) >= Len(suffix) /\ SubSeq(s, Len(s) - Len(suffix) + 1, Len(s)) = suffix
StartsWith(s, prefix) ==
    Len(s) >= Len(prefix) /\ SubSeq(s, 1, Len(prefix)) = prefix

\* str.replace(old, new): every occurrence of old, from the left
RECURSIVE Replace(_, _, _)
Replace(s, old, new) ==
    IF s = <<>> THEN <<>>
    ELSE IF StartsWith(s, old) THEN new \o Replace(DropFirst(s, Len(old)), old, new)
    ELSE <<s[1]>> \o Replace(Tail(s), old, new)

\* os.path.join(directory, name), os.path.basename
Join(dir, name) == [dir |-> dir, name |-> name]
Basename(path) == path.name

\* input_file_ext and output_file_ext as I3FileGroup.to_hdf5 passes them
input_file_ext == <<".", "i", "3", ".", "z", "s", "t">>
output_file_ext == <<".", "h", "d", "f", "5">>

\* what os.listdir(input_dir) may hold: files of the input extension, also
\* with the extensions occurring inside the name, and a file of another kind
DirEntries ==
    {<<"a">> \o input_file_ext,
     <<"b">> \o input_file_ext,
     <<"a">> \o input_file_ext \o input_file_ext,
     <<"a">> \o output_file_ext \o input_file_ext,
     <<"a">> \o output_file_ext}

\* os.listdir(input_dir): the entries in the order of the file system
Listings == InjSeqs(DirEntries, MaxInputs)

HasInputExt(name) == EndsWith(name, input_file_ext)

\* self._input_files
InputFilesOf(listing) ==
    LET kept == SelectSeq(listing, HasInputExt)
    IN  [i \in 1..Len(kept) |-> Join("input_dir", kept[i])]

\* the name of the job-description file the caller may configure
\* (dagman_file_path): the default dag/dagman.dag, or a name of their own
DefaultDagmanName == <<"d", "a", "g", "m", "a", "n", ".", "d", "a", "g">>
DagmanNames == {DefaultDagmanName, <<"m", "y", ".", "d", "a", "g">>}

\* the files the scheduler writes next to the job-description file: the
\* run-log <name>.dagman.out and the submit file <name>.condor.sub
RunLogSuffix == <<".", "d", "a", "g", "m", "a", "n", ".", "o", "u", "t">>
GeneratedNames(dagman) ==
    {dagman \o RunLogSuffix,
     dagman \o <<".", "c", "o", "n", "d", "o", "r", ".", "s", "u", "b">>}

\* a temporary file of the network file system
NfsPrefix == <<".", "n", "f", "s">>
NfsName == NfsPrefix \o <<"0", "1">>

\* self._log_file_path, self._out_file_path, self._err_file_path
LogDirs == {"log", "out", "err"}

\* the log the scheduler writes for a node: $(Cluster).$(Process).<kind>
NodeLogs == [d \in LogDirs |-> <<"12345.0", d>>]

NoText == <<>>

\* the first JOB name for all (a variant of the numbering)
JobNameUnnumbered(i) == <<"j", "o", "b", "_">> \o Decimal(0)

\* f'job_{i}'
JobName(i) == <<"j", "o", "b", "_">> \o Decimal(i)

\* the output file of an input file: base_name.replace(input ext, output ext)
\* under the output directory
OutputPath(file) ==
    Join("output_dir", Replace(Basename(file), input_file_ext, output_file_ext))

\* a line of the job-description file
DagLine(kind, name, file, outfile) ==
    [kind |-> kind, name |-> name, file |-> file, outfile |-> outfile]

\* the lines create_dag writes for the i-th input file (i from 0)
RECURSIVE JobEntries(_, _)
JobEntries(inputs, i) ==
    IF i >= Len(inputs) THEN <<>>
    ELSE <<DagLine("JOB", JobName(i), Join("conf", "job.sub"), None),
           DagLine("VARS", JobName(i), inputs[i + 1], OutputPath(inputs[i + 1]))>>
         \o JobEntries(inputs, i + 1)

\* instructions of create_dag
DagText(inputs) ==
    <<DagLine("CONFIG", None, Join("conf", "config.dag"), None)>> \o JobEntries(inputs, 0)

\* content of create_job_sub
JobSubText ==
    <<<<"log", Join("log", "$(Cluster).$(Process).log")>>,
      <<"output", Join("out", "$(Cluster).$(Process).out")>>,
      <<"error", Join("err", "$(Cluster).$(Process).err")>>,
      <<"request_cpus", "2">>, <<"request_memory", "1GB">>,
      <<"request_disk", "2GB">>, <<"Universe", "vanilla">>,
      <<"should_transfer_files", "YES">>,
      <<"when_to_transfer_output", "ON_EXIT">>,
      <<"executable", Join("conf", "job.sh")>>,
      <<"arguments", "$(infile) $(outfile)">>,
      <<"queue", "">>>>

\* content of create_job_sh
JobShText ==
    <<"#!/bin/sh", "export HDF5_DISABLE_VERSION_CHECK=1", "eval $(setup.sh)",
      "input_file=$1", "output_file=$2", "script_path=scripts/i3_to_hdf5.py",
      "env-shell.sh python3.11 $script_path -i $input_file -o $output_file">>

\* (a variant that opens the file for appending)
AppendFile(old, new) == old \o new

\* open(path, 'w'); write(content)
WriteFile(old, new) == new

\* the log directories after the first loop of clean_logs
CleanedLogDirs(dirs) == [d \in DOMAIN dirs |-> {}]

\* the entries of the dag directory clean_logs leaves alone
KeptByClean(name) == EndsWith(name, DefaultDagmanName) \/ StartsWith(name, NfsPrefix)

\* the dag directory after the second loop of clean_logs
CleanedDagDir(dir) == {name \in dir : KeptByClean(name)}

CfIdle ==
    /\ input_files = <<>> /\ dagman_name = DefaultDagmanName
    /\ dag_dir = {} /\ log_dirs = [d \in LogDirs |-> {}]
    /\ dag_text = NoText /\ sub_text = NoText /\ sh_text = NoText
    /\ configured = <<>> /\ first_dag = NoText /\ first_sub = NoText
    /\ last = "init" /\ had_dag = FALSE

\* after __init__: the input files are listed, the log directories exist
CfInit ==
    /\ input_files \in {InputFilesOf(l) : l \in Listings}
    /\ dagman_name \in DagmanNames
    /\ dag_dir = {} /\ log_dirs = [d \in LogDirs |-> {}]
    /\ dag_text = NoText /\ sub_text = NoText /\ sh_text = NoText
    /\ configured = <<>> /\ first_dag = NoText /\ first_sub = NoText
    /\ last = "init" /\ had_dag = FALSE

\* configure(clean): clean_logs() if asked, then the three files are written
Configure(clean) ==
    /\ Len(configured) < MaxConfigures
    /\ LET logs  == IF clean THEN CleanedLogDirs(log_dirs) ELSE log_dirs
           dir   == IF clean THEN CleanedDagDir(dag_dir) ELSE dag_dir
           old   == IF dagman_name \in dir THEN dag_text ELSE NoText
           dag   == WriteFile(old, DagText(input_files))
           sub   == WriteFile(sub_text, JobSubText)
       IN  /\ log_dirs' = logs
           /\ dag_dir' = dir \cup {dagman_name}
           /\ dag_text' = dag
           /\ sub_text' = sub
           /\ sh_text' = WriteFile(sh_text, JobShText)
           /\ first_dag' = IF configured = <<>> THEN dag ELSE first_dag
           /\ first_sub' = IF configured = <<>> THEN sub ELSE first_sub
    /\ configured' = Append(configured, clean)
    /\ last' = "configure"
    /\ had_dag' = (dagman_name \in dag_dir)
    /\ UNCHANGED <<input_files, dagman_name>>
    /\ UNCHANGED <<ixvars, dbvars, stvars, jobvars, bsvars, fgvars>>

ConfigureAny == \E clean \in BOOLEAN : Configure(clean)

\* clean_logs() called on its own
CleanLogs ==
    /\ log_dirs' = CleanedLogDirs(log_dirs)
    /\ dag_dir' = CleanedDagDir(dag_dir)
    /\ dag_text' = IF dagman_name \in CleanedDagDir(dag_dir) THEN dag_text ELSE NoText
    /\ last' = "clean_logs"
    /\ had_dag' = (dagman_name \in dag_dir)
    /\ UNCHANGED <<input_files, dagman_name, sub_text, sh_text, configured,
                   first_dag, first_sub>>
    /\ UNCHANGED <<ixvars, dbvars, stvars, jobvars, bsvars, fgvars>>

\* the scheduler, once the job was configured and submitted, writes a file
\* next to the job-description file or a log of a node
SchedulerWrites ==
    /\ configured # <<>>
    /\ \/ /\ \E name \in GeneratedNames(dagman_name) \cup {NfsName} :
                dag_dir' = dag_dir \cup {name}
          /\ UNCHANGED log_dirs
       \/ /\ \E d \in LogDirs :
                log_dirs' = [log_dirs EXCEPT ![d] = @ \cup {NodeLogs[d]}]
          /\ UNCHANGED dag_dir
    /\ last' = "scheduler"
    /\ had_dag' = (dagman_name \in dag_dir)
    /\ UNCHANGED <<input_files, dagman_name, dag_text, sub_text, sh_text,
                   configured, first_dag, first_sub>>
    /\ UNCHANGED <<ixvars, dbvars, stvars, jobvars, bsvars, fgvars>>

(***************************************************************************)
(* The batch splitter: staging of the input files in groups; the scratch   *)
(* area is reset by analysis.utils.reset_temp_dir                          *)
(***************************************************************************)
MaxBatchFiles == 4
MaxBatchSize == 3
MaxCycles == 2

\* the files of the source directory, by the number in their name
SourceNumbers == 1..MaxBatchFiles

\* the path of a source file
SourcePath(n) == Join("source_dir", <<"f">> \o Decimal(n))

\* a symbolic reference placed in a staging directory: named as the file it
\* refers to
Link(path) == [name |-> Basename(path), target |-> path]

\* the scratch area: staging directory -> the references in it
EmptyArea == [d \in {} |-> {}]

\* what an earlier cycle may have left in the scratch area: nothing, or a
\* staging directory with a reference to a file that is gone since
StaleAreas == {EmptyArea, [d \in {1} |-> {Link(SourcePath(0))}]}

\* (a variant that leaves the directory as it is)
ResetTempDirKeeping(area) == area

\* reset_temp_dir(): shutil.rmtree(directory); os.makedirs(directory)
ResetTempDir(area) == EmptyArea

\* shutil.rmtree(directory) raises FileNotFoundError on a missing directory
RmtreeRaises(exists) == ~exists

\* the last position of the chunk that starts at position start
ChunkEnd(start, size, n) == IF start + size - 1 < n THEN start + size - 1 ELSE n

\* the scratch area after the files of a chunk were linked in directory d
Staged(area, d, chunk) ==
    [e \in (DOMAIN area) \cup {d} |->
        IF e = d
        THEN (IF d \in DOMAIN area THEN area[d] ELSE {}) \cup
             {Link(chunk[i]) : i \in 1..Len(chunk)}
        ELSE area[e]]

BsIdle ==
    /\ source_files = {} /\ bsize = 1 /\ scratch = EmptyArea /\ batches = <<>>
    /\ sorted = <<>> /\ bnext = 1 /\ bpc = "idle" /\ cycles = 0
    /\ temp_exists = TRUE

\* the directory data/temp is absent, or present and empty, or present with
\* what an earlier cycle left in it
BsInit ==
    /\ source_files \in SUBSET SourceNumbers
    /\ bsize \in 1..MaxBatchSize
    /\ temp_exists \in BOOLEAN
    /\ scratch \in (IF temp_exists THEN StaleAreas ELSE {EmptyArea})
    /\ batches = <<>> /\ sorted = <<>> /\ bnext = 1
    /\ bpc = "idle" /\ cycles = 0

\* the splitter is called: the scratch area is reset (reset_temp_dir:
\* shutil.rmtree raises FileNotFoundError when the directory does not exist,
\* before makedirs is reached), the matching files are listed and sorted by
\* path
CallSplit ==
    /\ bpc = "idle"
    /\ cycles < MaxCycles
    /\ IF ~RmtreeRaises(temp_exists)
       THEN /\ scratch' = ResetTempDir(scratch)
            /\ sorted' = LET nums == Ascending(source_files)
                         IN  [i \in 1..Len(nums) |-> SourcePath(nums[i])]
            /\ batches' = <<>>
            /\ bnext' = 1
            /\ bpc' = "staging"
       ELSE /\ bpc' = "raised"
            /\ UNCHANGED <<scratch, sorted, batches, bnext>>
    /\ cycles' = cycles + 1
    /\ UNCHANGED <<source_files, bsize, temp_exists>>
    /\ UNCHANGED <<ixvars, dbvars, stvars, jobvars, cfvars, fgvars>>

\* the next chunk is staged in a directory of its own
StageBatch ==
    /\ bpc = "staging"
    /\ bnext <= Len(sorted)
    /\ LET chunk == SubSeq(sorted, bnext, ChunkEnd(bnext, bsize, Len(sorted)))
           dir   == Len(batches) + 1
       IN  /\ scratch' = Staged(scratch, dir, chunk)
           /\ batches' = Append(batches, dir)
    /\ bnext' = bnext + bsize
    /\ UNCHANGED <<source_files, bsize, sorted, bpc, cycles, temp_exists>>
    /\ UNCHANGED <<ixvars, dbvars, stvars, jobvars, cfvars, fgvars>>

\* all chunks are staged: the list of staging directories is returned
SplitReturn ==
    /\ bpc = "staging"
    /\ bnext > Len(sorted)
    /\ bpc' = "idle"
    /\ UNCHANGED <<source_files, bsize, scratch, batches, sorted, bnext, cycles,
                   temp_exists>>
    /\ UNCHANGED <<ixvars, dbvars, stvars, jobvars, cfvars, fgvars>>

(***************************************************************************)
(* I3FileGroup.__init__: the paths of the group                            *)
(***************************************************************************)
MaxListing == 3

\* what os.listdir(directory) may hold: .i3.zst files and files of other
\* kinds
GroupEntries ==
    {<<"a">> \o input_file_ext, <<"b">> \o input_file_ext,
     <<"a">> \o output_file_ext, <<"b">> \o output_file_ext}

\* listdir_absolute(directory): the entries joined to the directory, in the
\* order of the file system
GroupListings ==
    {[i \in 1..Len(l) |-> Join("directory", l[i])] : l \in InjSeqs(GroupEntries, MaxListing)}

\* path.endswith(".i3.zst"); the name of an entry is not empty and the
\* extension holds no separator, so the test on the path is the test on the
\* name
EndsWithI3Zst(path) == EndsWith(Basename(path), input_file_ext)

\* list.remove(x): the list without the first element equal to x
RemoveFirst(seq, x) ==
    LET at == CHOOSE i \in 1..Len(seq) :
                  seq[i] = x /\ \A j \in 1..(i - 1) : seq[j] # x
    IN  SubSeq(seq, 1, at - 1) \o SubSeq(seq, at + 1, Len(seq))

FgIdle ==
    paths = <<>> /\ fgit = 0 /\ filenames = <<>> /\ fgpc = "done" /\ listed = <<>>

\* self._paths = listdir_absolute(self._directory)
FgInit ==
    /\ listed \in GroupListings
    /\ paths = listed
    /\ fgit = 0
    /\ filenames = <<>>
    /\ fgpc = "loop"

\* one iteration of "for path in self._paths": the list iterator yields the
\* element at its position in the list as it is now and moves on by one
RemoveStep ==
    /\ fgpc = "loop"
    /\ fgit < Len(paths)
    /\ LET path == paths[fgit + 1]
       IN  paths' = IF ~EndsWithI3Zst(path) THEN RemoveFirst(paths, path) ELSE paths
    /\ fgit' = fgit + 1
    /\ UNCHANGED <<filenames, fgpc, listed>>
    /\ UNCHANGED <<ixvars, dbvars, stvars, jobvars, cfvars, bsvars>>

\* the iterator is exhausted: self._filenames = [basename(path) ...]
SetFilenames ==
    /\ fgpc = "loop"
    /\ fgit >= Len(paths)
    /\ filenames' = [i \in 1..Len(paths) |-> Basename(paths[i])]
    /\ fgpc' = "done"
    /\ UNCHANGED <<paths, fgit, listed>>
    /\ UNCHANGED <<ixvars, dbvars, stvars, jobvars, cfvars, bsvars>>

(***************************************************************************)
(* Specifications                                                          *)
(***************************************************************************)
IndexInit == IxInit /\ DbIdle /\ StIdle /\ JobIdle /\ CfIdle /\ BsIdle /\ FgIdle
IndexNext == IndexFile \/ IndexSave
SpecIndex == IndexInit /\ [][IndexNext]_vars

MetadataNext == IndexFile \/ IndexSave \/ Metadata
SpecMetadata == IndexInit /\ [][MetadataNext]_vars

MergeInit == DbInit /\ IxIdle /\ StIdle /\ JobIdle /\ CfIdle /\ BsIdle /\ FgIdle
MergeNext == CallPreprocess \/ CallMerge \/ PreprocessFile \/ MergeFile \/ DbReturn
SpecMerge == MergeInit /\ [][MergeNext]_vars

MergeOrderInit == DbInitAnyOrder /\ IxIdle /\ StIdle /\ JobIdle /\ CfIdle /\ BsIdle /\ FgIdle
SpecMergeOrder == MergeOrderInit /\ [][MergeNext]_vars

OffsetInit == DbInitOffsets /\ IxIdle /\ StIdle /\ JobIdle /\ CfIdle /\ BsIdle /\ FgIdle
SpecOffset == OffsetInit /\ [][MergeNext]_vars

StatusInit == StInit /\ IxIdle /\ DbIdle /\ JobIdle /\ CfIdle /\ BsIdle /\ FgIdle
StatusNext == CallStatus
SpecStatus == StatusInit /\ [][StatusNext]_vars

JobInitAll == JobInit /\ IxIdle /\ DbIdle /\ StIdle /\ CfIdle /\ BsIdle /\ FgIdle
JobNext == Submit \/ Poll \/ Sleep \/ Drain
SpecJob == JobInitAll /\ [][JobNext]_vars
FairSpecJob == SpecJob /\ WF_vars(Poll) /\ WF_vars(Sleep)

ConfigureInit == CfInit /\ IxIdle /\ DbIdle /\ StIdle /\ JobIdle /\ BsIdle /\ FgIdle
ConfigureNext == ConfigureAny \/ CleanLogs \/ SchedulerWrites
SpecConfigure == ConfigureInit /\ [][ConfigureNext]_vars

SplitInit == BsInit /\ IxIdle /\ DbIdle /\ StIdle /\ JobIdle /\ CfIdle /\ FgIdle
GroupInit == FgInit /\ IxIdle /\ DbIdle /\ StIdle /\ JobIdle /\ CfIdle /\ BsIdle
GroupNext == RemoveStep \/ SetFilenames
SpecGroup == GroupInit /\ [][GroupNext]_vars

SplitNext == CallSplit \/ StageBatch \/ SplitReturn
SpecSplit == SplitInit /\ [][SplitNext]_vars

(***************************************************************************)
(* Properties of generate_weight_config_file                               *)
(***************************************************************************)
\* s_0 + ... + s_{i-1}: the event counts of the files before position i
SizesBefore(i) == SumSeq([j \in 1..(i - 1) |-> sizes[files[j]]])

TotalEvents == SizesBefore(Len(files) + 1)

\* the positions of the global weight vector the table gives to files[i]
RangeOfFile(i) ==
    LET e == config_file[KeyOf(files[i])]
    IN  {p \in 0..(TotalEvents + MaxSize) : e.index_start <= p /\ p < e.index_start + e.size}

RECURSIVE CountOf(_, _)
CountOf(s, x) ==
    IF s = <<>> THEN 0 ELSE (IF s[1] = x THEN 1 ELSE 0) + CountOf(Tail(s), x)

\* exactly one merge() has run, to its end, into the fresh target
MergedOnce == dpc = "idle" /\ CountOf(calls, "merge") = 1 /\ calls[Len(calls)] = "merge"

NoDuplicates(rows) == \A i, j \in 1..Len(rows) : i # j => rows[i] # rows[j]

RowCount(tgt, t) == IF t \in DOMAIN tgt THEN Len(tgt[t]) ELSE 0

\* C2: after merge() no two rows of the merged truth table have the same
\* event_no (every source has unique event_no values within itself).
C2_MergedUnique == MergedOnce => NoDuplicates(IF "truth" \in DOMAIN target THEN target["truth"] ELSE <<>>)

\* C3: after merge() into a fresh target every table of the target holds as
\* many rows as the sources hold together for that table.
C3_RowCounts ==
    MergedOnce =>
        \A t \in TableNames :
            RowCount(target, t) = SumSeq([i \in 1..Len(dbs) |-> Len(RowsOf(dbs[i], t))])

C3_Witness ==
    /\ MergedOnce /\ Len(dbs) = 2 /\ dbs[1].num # dbs[2].num
    /\ Len(dbs[1].truth) = 2 /\ Len(dbs[2].truth) = 1
    /\ Len(dbs[1].pulses) = 2 /\ Len(dbs[2].pulses) = 0
    /\ RowCount(target, "truth") = 3 /\ RowCount(target, "pulses") = 2

\* the identifiers of the sources processed before source i
PriorIds(i) == UNION {Range(dbs[j].truth) : j \in 1..(i - 1)}

\* C4: during the (first) deconfliction pass, a source whose offset
\* identifiers overlap identifiers of a previously processed source ends with
\* a contiguous block of identifiers, all greater than the maximum of those
\* already present, and so disjoint from them.
C4_FallbackAboveMax ==
    (calls = <<"pre">> /\ dpc = "pre") =>
        \A i \in 1..(dpos - 1) :
            (Range(OffsetNos(orig[i])) \cap PriorIds(i) # {}) =>
                /\ \A e \in Range(dbs[i].truth) : e > Max(PriorIds(i))
                /\ \A k \in 1..Len(dbs[i].truth) :
                       EventNosOf(dbs[i])[k] = EventNosOf(dbs[i])[1] + (k - 1)
                /\ Range(dbs[i].truth) \cap PriorIds(i) = {}

(***************************************************************************)
(* Properties of HTCondorJob.status                                        *)
(***************************************************************************)
\* the dict the eight counters of a status line stand for, in order
DictOf(c) ==
    [done |-> c[1], pre |-> c[2], queued |-> c[3], post |-> c[4],
     ready |-> c[5], unready |-> c[6], failed |-> c[7], futile |-> c[8]]

\* the last line of the run-log that is a header line (of those in H)
LastOf(H) == Max({0} \cup {i \in 1..Len(runlog.lines) : runlog.lines[i] \in H})

AnyHeader == {Line("header", ts, <<>>) : ts \in BOOLEAN}
TimedHeader == {Line("header", TRUE, <<>>)}

\* C5 as stated: when the header line is followed, 2 lines below, by a line
\* made of eight integers, status() returns them as done, pre, queued, post,
\* ready, unready, failed, futile.
C5_ParsesEightIntegers ==
    (spc = "returned" /\ runlog.exists /\ LastOf(TimedHeader) > 0
        /\ LastOf(TimedHeader) + lines_after <= Len(runlog.lines)) =>
        LET l == runlog.lines[LastOf(TimedHeader) + lines_after]
        IN  (l.kind = "status" /\ Len(l.vals) = 8) => sresult = Returned(DictOf(l.vals))

\* C5 amended: when the last header line that starts with the entry time is
\* followed, 2 lines below, by a line made of the 17-character entry time and
\* then eight integers, status() returns those integers as done, pre, queued,
\* post, ready, unready, failed, futile.
C5_ParsesTimedLine ==
    (spc = "returned" /\ runlog.exists /\ LastOf(TimedHeader) > 0
        /\ LastOf(TimedHeader) + lines_after <= Len(runlog.lines)) =>
        LET l == runlog.lines[LastOf(TimedHeader) + lines_after]
        IN  (l.kind = "status" /\ l.ts /\ Len(l.vals) = 8) =>
                sresult = Returned(DictOf(l.vals))

C5_Witness ==
    /\ spc = "returned"
    /\ runlog = LogFile(<<Line("header", TRUE, <<>>), Line("rule", TRUE, <<>>),
                          Line("status", TRUE, ExampleCounts)>>)
    /\ sresult.kind = "status"
    /\ sresult.status.done = 10 /\ sresult.status.queued = 5
    /\ sresult.status.ready = 3 /\ sresult.status.failed = 2

\* C6: on an existing run-log with no header line, status() returns None and
\* raises nothing.
C6_NoneWithoutMarker ==
    (spc = "returned" /\ runlog.exists /\ LastOf(AnyHeader) = 0) => sresult = ReturnedNone

C6_Witness ==
    /\ spc = "returned" /\ runlog.exists /\ LastOf(AnyHeader) = 0
    /\ Len(runlog.lines) = 3
    /\ runlog.lines[1] = Line("status", TRUE, ExampleCounts)
    /\ sresult = ReturnedNone

(***************************************************************************)
(* Properties of HTCondorJob.submit and _monitor                           *)
(***************************************************************************)
Monitoring == jpc \in {"poll", "retry", "sleep"}

\* C7: the monitor returns at the read on which queued+ready = 0 is seen for
\* the first time, and not before: at its return the number of status reads
\* made is the position of that read (3 when it is the third).
C7_ReturnsAtFirstZero ==
    /\ (jpc = "returned" /\ polls > 0 /\ polls < MaxPolls) => firstZero = polls
    /\ firstZero # 0 => jpc = "returned"

C7_Witness ==
    jpc = "returned" /\ polls = 3 /\ firstZero = 3 /\ allStatus

\* C8: once every status read reports queued+ready = 0, the monitor
\* eventually returns, whatever the failed counter.
C8_DrainedReturns == (drained /\ Monitoring) ~> (jpc = "returned")

C8_Witness == drained /\ jpc = "returned" /\ pb_failed > 0 /\ polls > 1

\* the scheduler's output has no line with the marker token
NoMarkerLine ==
    \A i \in 1..Len(proc.stdout) :
        \A w \in 1..Len(proc.stdout[i]) : ~HasMarker(proc.stdout[i][w])

Rejected == proc.returncode # 0

\* C9: status reads happen only after an identifier was taken from the output
\* of a successful invocation; after a rejected submission or one without
\* identifier no status read is ever made.
C9_MonitorOnlyWithJobId ==
    /\ (polls > 0 \/ Monitoring) =>
            /\ ~Rejected /\ ~NoMarkerLine
            /\ job_id # None
            /\ \E i \in 1..Len(proc.stdout) : job_id = proc.stdout[i][Len(proc.stdout[i])]
    /\ (jpc # "submit" /\ (Rejected \/ NoMarkerLine)) => (polls = 0 /\ ~Monitoring)

C9_Witness ==
    /\ jpc = "aborted" /\ monitor /\ ~Rejected /\ NoMarkerLine
    /\ Len(proc.stdout) = 2 /\ polls = 0

\* C10: a rejected submission and a submission whose output has no marker line
\* both end submit at once with the error reported and a non-zero exit.
C10_FatalSubmission ==
    (jpc # "submit" /\ (Rejected \/ NoMarkerLine)) =>
        /\ jpc = "aborted"
        /\ exit_code # 0
        /\ reported
        /\ raised = IF Rejected THEN "SystemExit" ELSE "ValueError"

C10_Witness ==
    /\ jpc = "aborted" /\ Rejected /\ ~NoMarkerLine /\ exit_code = 1 /\ reported

(***************************************************************************)
(* Properties of the monitor loop on failed reads                          *)
(***************************************************************************)
\* what status() ends with on the run-logs of TransientLogs
TransientReads == {Status(log) : log \in TransientLogs}

\* the latest read of the loop failed on a missing or partly written run-log
TransientFailure ==
    /\ polls > 0
    /\ lastread \in TransientReads
    /\ lastread.kind \in {"FileNotFoundError", "IndexError"}

\* C11: a read that fails because the run-log is missing or its status block
\* is partly written ends neither the loop nor the program: the monitor is in
\* its sleep or back at the next read, nothing was raised and the process has
\* not exited, however many reads failed before.
C11_TransientErrorsRetried ==
    TransientFailure =>
        /\ jpc \in {"sleep", "poll"}
        /\ raised = None /\ exit_code = 0

\* no read so far gave a status, MaxPolls - 1 of them at least were made, the
\* latest was a short read, and the loop is back at the read after its sleep
C11_Witness ==
    /\ TransientFailure
    /\ lastread.kind = "IndexError"
    /\ polls >= MaxPolls - 1
    /\ ~init_pb_flag
    /\ jpc = "poll"

(***************************************************************************)
(* Properties of DBFileGroup: repeated merge, deconfliction, order         *)
(***************************************************************************)
\* the rows the sources hold for table t, in the order of self._files
RECURSIVE SourceRows(_, _)
SourceRows(t, i) ==
    IF i > Len(dbs) THEN <<>> ELSE RowsOf(dbs[i], t) \o SourceRows(t, i + 1)

\* merge() has run twice, to its end, and nothing else was called
MergedTwice == dpc = "idle" /\ calls = <<"merge", "merge">>

\* C16: merge() is not idempotent: a second run appends every source row
\* again, so after two runs each table of the target holds the rows of the
\* sources twice over.
C16_SecondMergeDoubles ==
    MergedTwice =>
        \A t \in TableNames :
            /\ RowCount(target, t) = 2 * Len(SourceRows(t, 1))
            /\ (t \in DOMAIN target => target[t] = SourceRows(t, 1) \o SourceRows(t, 1))

C16_Witness ==
    /\ MergedTwice /\ Len(dbs) = 2
    /\ Len(dbs[1].truth) = 2 /\ Len(dbs[2].truth) = 1 /\ Len(dbs[1].pulses) = 2
    /\ RowCount(target, "truth") = 6 /\ RowCount(target, "pulses") = 4

\* the position in calls of the first merge(), or 0
RECURSIVE FirstMerge(_)
FirstMerge(k) ==
    IF k > Len(calls) THEN 0
    ELSE IF calls[k] = "merge" THEN k ELSE FirstMerge(k + 1)

\* some table of the target holds a row
RowsInserted == \E t \in DOMAIN target : Len(target[t]) > 0

\* C18: merge() copies the tables of a source only once the identifiers of
\* that source were deconflicted: when the target holds a row, a deconfliction
\* pass over the sources has run before the merge() that inserted it.
C18_CopiedOnlyDeconflicted ==
    RowsInserted => \E j \in 1..(FirstMerge(1) - 1) : calls[j] = "pre"

\* the mapping chosen for a store: the k-th smallest event_no to the k-th new one
Remapped(db, en) ==
    LET k == CHOOSE i \in 1..Len(db.truth) : EventNosOf(db)[i] = en
    IN  NewEventNos(db)[k]

\* C19: the chosen remapping is applied to every row referencing the
\* identifier column, in every table of the source: after the pass each row of
\* each table carries the new identifier of the event it belonged to.
C19_RemapsEveryTable ==
    (dpc = "idle" /\ calls = <<"pre">>) =>
        \A i \in 1..Len(dbs) : \A t \in TableNames :
            \A k \in 1..Len(RowsOf(orig[i], t)) :
                RowsOf(dbs[i], t)[k] = Remapped(orig[i], RowsOf(orig[i], t)[k])

\* C20: merge() processes the sources in the recorded merge order: the k-th
\* source whose tables it copies is the k-th of the record.
C20_FollowsMergeOrder ==
    (dpc = "merge") => \A k \in 1..(dpos - 1) : merge_order[k] = k

(***************************************************************************)
(* Properties of HTCondorJob.configure, create_dag and clean_logs          *)
(***************************************************************************)
\* C12: configure(clean=True) run again on the same inputs and configuration
\* leaves the job-description file and the submission template with the
\* content the first run gave them, whatever the scheduler wrote in between.
C12_ConfigureIdempotent ==
    (/\ last = "configure" /\ Len(configured) >= 2
     /\ configured[1] /\ configured[Len(configured)]) =>
        /\ dag_text = first_dag
        /\ sub_text = first_sub

\* two runs with clean=True over two input files; the scheduler wrote a
\* temporary file next to the job-description file between them
C12_Witness ==
    /\ last = "configure" /\ configured = <<TRUE, TRUE>>
    /\ Len(input_files) = 2
    /\ NfsName \in dag_dir
    /\ dag_text = first_dag /\ Len(dag_text) = 5

\* the positions of the lines of a kind in the job-description file
LinesOf(kind) == {k \in 1..Len(dag_text) : dag_text[k].kind = kind}

\* the job-description file is there, as create_dag wrote it
DagWritten == dagman_name \in dag_dir

\* C13: the job-description file holds, for every input file, exactly one
\* VARS line and exactly one JOB line of the same job name; the job names are
\* pairwise distinct, there are no further JOB or VARS lines, and no line
\* declares a dependency.
C13_OneJobPerInput ==
    DagWritten =>
        /\ \A i \in 1..Len(input_files) :
              \E v \in LinesOf("VARS") :
                /\ dag_text[v].file = input_files[i]
                /\ \A w \in LinesOf("VARS") : dag_text[w].file = input_files[i] => w = v
                /\ Cardinality({j \in LinesOf("JOB") : dag_text[j].name = dag_text[v].name}) = 1
        /\ \A j, k \in LinesOf("JOB") : j # k => dag_text[j].name # dag_text[k].name
        /\ Cardinality(LinesOf("JOB")) = Len(input_files)
        /\ Cardinality(LinesOf("VARS")) = Len(input_files)
        /\ \A k \in 1..Len(dag_text) : dag_text[k].kind \in {"CONFIG", "JOB", "VARS"}

C13_Witness ==
    /\ DagWritten /\ Len(input_files) = 2
    /\ Cardinality(LinesOf("JOB")) = 2
    /\ \E j, k \in LinesOf("JOB") :
          dag_text[j].name = JobName(0) /\ dag_text[k].name = JobName(1)

\* the name in which the input extension, the suffix of the name, is replaced
\* by the output extension and nothing else is changed
SuffixReplaced(name) ==
    SubSeq(name, 1, Len(name) - Len(input_file_ext)) \o output_file_ext

\* C14: the output path of a VARS line is the output directory joined with
\* the basename of the input file in which the input extension (the suffix)
\* is replaced by the output extension, the rest of the basename unchanged.
C14_OutputPathSwapsSuffix ==
    DagWritten =>
        \A v \in LinesOf("VARS") :
            dag_text[v].outfile =
                Join("output_dir", SuffixReplaced(Basename(dag_text[v].file)))

\* C17: clean_logs leaves the log, out and err directories empty, removes
\* the files the scheduler generated next to the job-description file, and
\* does not delete the job-description file, whatever its configured name.
C17_CleanKeepsJobDescription ==
    (last = "clean_logs") =>
        /\ \A d \in LogDirs : log_dirs[d] = {}
        /\ \A name \in GeneratedNames(dagman_name) : name \notin dag_dir
        /\ (had_dag => dagman_name \in dag_dir)

(***************************************************************************)
(* Properties of the batch splitter                                        *)
(***************************************************************************)
\* ceil(n / b)
CeilDiv(n, b) == (n + b - 1) \div b

\* the basenames staged in directory d
StagedNames(d) == {l.name : l \in scratch[d]}

C21_WaitBetweenReads == (polls > 0) => slept

\* the sum the progress bar is sized to
BarTotal(st) == st.queued + st.ready + st.done + st.failed

\* C30: the progress total is set at the first successful status read, to
\* queued+ready+done+failed of that read, it does not change afterwards, and
\* the progress shown (done+failed) is never more than the total.
C30_TotalFixedAndBounding ==
    [][/\ (~init_pb_flag /\ init_pb_flag') => pb_total' = BarTotal(lastread'.status)
       /\ init_pb_flag => (init_pb_flag' /\ pb_total' = pb_total)
       /\ init_pb_flag' => pb_n' <= pb_total']_vars

(***************************************************************************)
(* Properties of HTCondorJob.status on run-logs with several blocks        *)
(***************************************************************************)
\* a line of counters as DAGMan writes it: entry time and eight integers
CompleteStatus(l) == l.kind = "status" /\ l.ts /\ Len(l.vals) = 8

\* C22: status() takes the counters from the block under the last header
\* line of the run-log: it returns the counters written lines_after below
\* that header, and when that block is incomplete it raises IndexError and
\* returns nothing of an earlier block.
C22_ReadsLastBlock ==
    (spc = "returned" /\ runlog.exists /\ LastOf(TimedHeader) > 0) =>
        LET h == LastOf(TimedHeader)
        IN  IF h + lines_after <= Len(runlog.lines)
               /\ CompleteStatus(runlog.lines[h + lines_after])
            THEN sresult = Returned(DictOf(runlog.lines[h + lines_after].vals))
            ELSE sresult = Raised("IndexError")

\* two complete blocks with different counters: those of the second are returned
C22_Witness ==
    /\ spc = "returned"
    /\ Len(runlog.lines) = 6
    /\ LastOf(TimedHeader) = 4
    /\ runlog.lines[3] = Line("status", TRUE, ExampleCounts)
    /\ runlog.lines[6] = Line("status", TRUE, <<0, 0, 0, 0, 0, 0, 0, 0>>)
    /\ sresult = Returned(DictOf(<<0, 0, 0, 0, 0, 0, 0, 0>>))

(***************************************************************************)
(* Properties of the offset scheme and of the update pass                  *)
(***************************************************************************)
\* every event_no of the store lies in [0, 10^6)
BelowScale(db) == \A e \in Range(db.truth) : 0 <= e /\ e < Scale

\* the store is remapped by its offsets (the conflict check found nothing)
OnOffsetPath(db) == NewEventNos(db) = OffsetNos(db)

\* C23: for two sources with different file numbers whose event_no values
\* all lie in [0, 10^6), the identifier sets file number * 10^6 + event_no
\* are disjoint; and so are their truth tables after a deconfliction pass
\* that remapped both by their offsets.
C23_OffsetsDisjoint ==
    \A i, j \in 1..Len(orig) :
        (orig[i].num # orig[j].num /\ BelowScale(orig[i]) /\ BelowScale(orig[j])) =>
            /\ Range(OffsetNos(orig[i])) \cap Range(OffsetNos(orig[j])) = {}
            /\ (dpc = "idle" /\ calls = <<"pre">>
                    /\ OnOffsetPath(orig[i]) /\ OnOffsetPath(orig[j])) =>
                   Range(dbs[i].truth) \cap Range(dbs[j].truth) = {}

\* files 000001 and 000002 with event numbers at both ends of the range,
\* after the pass
C23_Witness ==
    /\ dpc = "idle" /\ calls = <<"pre">> /\ Len(dbs) = 2
    /\ orig[1] = [num |-> 1, truth |-> <<0, 999999>>, pulses |-> <<>>]
    /\ orig[2] = [num |-> 2, truth |-> <<0>>, pulses |-> <<>>]
    /\ dbs[1].truth = <<1000000, 1999999>>
    /\ dbs[2].truth = <<2000000>>

\* C29: the updates of a pass, one per old identifier and applied in
\* sequence on the same table, never bring two rows to the same event_no:
\* each truth table holds as many distinct identifiers after the passes made
\* so far as it held at the start, on the offset and on the fallback path.
C29_UpdatesKeepDistinct ==
    \A i \in 1..Len(dbs) :
        /\ Len(dbs[i].truth) = Len(orig[i].truth)
        /\ Cardinality(Range(dbs[i].truth)) = Cardinality(Range(orig[i].truth))

\* a store whose offsets meet its own identifiers (fallback path) next to
\* one on the offset path, after the pass
C29_Witness ==
    /\ dpc = "idle" /\ calls = <<"pre">> /\ Len(dbs) = 2
    /\ orig[1] = [num |-> 1, truth |-> <<0, 1000000>>, pulses |-> <<>>]
    /\ orig[2] = [num |-> 2, truth |-> <<0, 999999>>, pulses |-> <<>>]
    /\ dbs[1].truth = <<1000001, 1000002>>
    /\ dbs[2].truth = <<2000000, 2999999>>

(***************************************************************************)
(* Output paths of one job-description file                                *)
(***************************************************************************)
\* C28: two distinct input files selected by one HTCondorJob have distinct
\* output paths in the VARS lines of the job-description file.
C28_DistinctOutputPaths ==
    DagWritten =>
        \A v, w \in LinesOf("VARS") :
            dag_text[v].file # dag_text[w].file =>
                dag_text[v].outfile # dag_text[w].outfile

(***************************************************************************)
(* Properties of reset_temp_dir                                            *)
(***************************************************************************)
\* C24: from any prior state of the scratch area (absent, empty, or holding
\* entries) a call of reset_temp_dir completes and leaves the directory
\* present and empty.  (Every step taken from "idle" is that call, followed
\* by the listing.)
C24_ResetCompletes ==
    [][bpc = "idle" =>
          (bpc' # "raised" /\ temp_exists' /\ scratch' = EmptyArea)]_vars

(***************************************************************************)
(* Properties of the weight slice and of the metadata-to-weight join       *)
(***************************************************************************)
\* the index entry of the file metadata() ran on
EntryOfI3 == config_file[i3key]

\* C25: the cache holds exactly the elements of the weight vector at the
\* positions [index_start, index_start + size) of the file's index entry,
\* and so no element of another file's range.
C25_CacheIsOwnRange ==
    (i3key # None) =>
        Range(weights_cache) =
            {p \in Range(WeightData) :
                EntryOfI3.index_start <= p /\ p < EntryOfI3.index_start + EntryOfI3.size}

\* the ordinal, from 0, of the frame at position i among the Physics frames
FrameOrdinal(i) == Cardinality({k \in 1..(i - 1) : IsPhysics(i3frames[k])})

\* C26: the weight of an emitted record is the element at the position
\* index_start + j of the weight vector, j being the ordinal of the record's
\* frame among all Physics frames of the file, also when earlier Physics
\* frames were skipped.
C26_WeightOfOwnFrame ==
    (i3key # None) =>
        \A r \in 1..Len(metadata) :
            metadata[r].weight = EntryOfI3.index_start + FrameOrdinal(metadata[r].frame)

(***************************************************************************)
(* Properties of I3FileGroup.__init__                                      *)
(***************************************************************************)
\* C27: after the construction every path the group holds ends with
\* .i3.zst, whatever the number and the position of the other files in the
\* listing.
C27_OnlyI3ZstPaths ==
    (fgpc = "done" /\ listed # <<>>) =>
        \A i \in 1..Len(paths) : EndsWithI3Zst(paths[i])

====
